---------------------------- MODULE Spec2Model ----------------------------
(***************************************************************************)
(* Model of the consul-k8s health-check operator: the pod event filter,    *)
(* the rate-limited work queue, the worker loop (processNextItem), the     *)
(* HealthCheckHandler (ObjectCreated / ObjectUpdated / Reconcile) and the  *)
(* Consul agents it talks to.                                              *)
(*                                                                         *)
(* Sources: src/unnamed/part_000 (the Controller) and                      *)
(* src/operators/health-check/handler.go (the HealthCheckHandler).         *)
(***************************************************************************)
EXTENDS Naturals, Sequences, FiniteSets, TLC

(***************************************************************************)
(* Bounds of the model.                                                    *)
(***************************************************************************)
\* how many pod changes the cluster makes in one behaviour
MaxPodEvents == 2
\* how many injected failures (cache lookup, client binding, agent call)
MaxFaults == 1
\* the largest value the Controller's MaxRetries field is constructed with
MaxRetriesCap == 1
\* how many Reconcile sweeps are started in one behaviour
MaxSweeps == 1

(***************************************************************************)
(* Program constants.                                                      *)
(***************************************************************************)
\* handler.go:110  "if retries > 10"
PollRetryLimit == 10

healthCheckPassing == "passing"
healthCheckCritical == "critical"

PodPending == "Pending"
PodRunning == "Running"
PodSucceeded == "Succeeded"
ConditionTrue == "True"
ConditionFalse == "False"
ConditionUnknown == "Unknown"

\* the zero value of a pointer / interface
Nil == "nil"

(***************************************************************************)
(* Pods.  A pod is a record with the fields the program reads: Name,       *)
(* Namespace, the connect-service annotation, Status.Phase, Status.HostIP, *)
(* Status.Conditions (a sequence), and ResourceVersion standing for every  *)
(* field the program does not read but reflect.DeepEqual compares.         *)
(***************************************************************************)
PodNames == {"web", "db"}

NamespaceOf(n) == IF n = "web" THEN "default" ELSE "prod"
AnnotationOf(n) == IF n = "web" THEN "frontend" ELSE "store"
HostIPOf(n) == IF n = "web" THEN "10.0.0.1" ELSE "10.0.0.2"
Hosts == {HostIPOf(n) : n \in PodNames}

\* the pods the cluster of the system specification holds at some time; the
\* other names serve the specifications of the handler's operations
ClusterPods == {"web"}

Phases == {PodPending, PodRunning, PodSucceeded}

\* a Ready condition as the kubelet writes it
ReadyCond(s) ==
    [Type |-> "Ready", Status |-> s,
     Reason |-> IF s = ConditionTrue THEN "" ELSE "ContainersNotReady",
     Message |-> IF s = ConditionTrue THEN "" ELSE "containers with unready status"]

OtherCond ==
    [Type |-> "PodScheduled", Status |-> ConditionTrue, Reason |-> "", Message |-> ""]

CondStatuses == {ConditionTrue, ConditionFalse, ConditionUnknown}

\* every condition list the event filter and the handler are tried on
CondLists ==
    {<<>>, <<OtherCond>>}
      \cup {<<ReadyCond(s)>> : s \in CondStatuses}
      \cup {<<OtherCond, ReadyCond(s)>> : s \in CondStatuses}

\* the pod states the cluster of the system specification moves through: a
\* Pending pod has no Ready condition yet, a Running pod may have none
ClusterCondLists(ph) ==
    IF ph = PodPending THEN {<<>>}
    ELSE IF ph = PodRunning
    THEN {<<>>, <<ReadyCond(ConditionTrue)>>, <<ReadyCond(ConditionFalse)>>}
    ELSE {<<ReadyCond(ConditionFalse)>>}

MkPod(n, phase, conds, rv) ==
    [Name |-> n, Namespace |-> NamespaceOf(n), Annotation |-> AnnotationOf(n),
     Phase |-> phase, HostIP |-> HostIPOf(n), Conditions |-> conds,
     ResourceVersion |-> rv]

PodStates(n) ==
    {MkPod(n, ph, cs, rv) : ph \in Phases, cs \in CondLists, rv \in 1..2}

ClusterPodStates(n) ==
    UNION {{MkPod(n, ph, cs, 1) : cs \in ClusterCondLists(ph)} : ph \in Phases}

\* a pod that does not exist (absent from the cluster and from the cache)
NoPod == [Name |-> Nil]

(***************************************************************************)
(* Queue keys.  cache.MetaNamespaceKeyFunc gives "<namespace>/<name>"; the *)
(* filter prefixes "ADD/" or "UPDATE/"; processNextItem splits on "/".     *)
(***************************************************************************)
MetaNamespaceKeyFunc(pod) ==
    IF pod.Namespace = "" THEN pod.Name ELSE pod.Namespace \o "/" \o pod.Name

RECURSIVE Join(_, _)
\* strings.Join
Join(parts, sep) ==
    IF parts = <<>> THEN ""
    ELSE IF Len(parts) = 1 THEN parts[1]
    ELSE parts[1] \o sep \o Join(Tail(parts), sep)

Segments == {"ADD", "UPDATE"} \cup PodNames \cup {NamespaceOf(n) : n \in PodNames}

\* strings.Split(key, "/"): the "/"-free segments whose Join is the key
Split(key) ==
    CHOOSE parts \in UNION {[1..k -> Segments] : k \in 1..3} : Join(parts, "/") = key

AddKey(pod) == "ADD/" \o MetaNamespaceKeyFunc(pod)
UpdateKey(pod) == "UPDATE/" \o MetaNamespaceKeyFunc(pod)

Keys == UNION {{AddKey(MkPod(n, PodRunning, <<>>, 1)),
                UpdateKey(MkPod(n, PodRunning, <<>>, 1))} : n \in PodNames}

(***************************************************************************)
(* The work queue (workqueue.RateLimitingInterface): the FIFO, the dirty   *)
(* and processing sets, the rate limiter's failure counts and the keys     *)
(* waiting in the delaying queue.                                          *)
(***************************************************************************)
EmptyQueue ==
    [queue |-> <<>>, dirty |-> {}, processing |-> {}, shuttingDown |-> FALSE,
     failures |-> [k \in Keys |-> 0], waiting |-> {}]

QueueAdd(q, key) ==
    IF q.shuttingDown \/ key \in q.dirty THEN q
    ELSE IF key \in q.processing THEN [q EXCEPT !.dirty = @ \cup {key}]
    ELSE [q EXCEPT !.dirty = @ \cup {key}, !.queue = Append(@, key)]

QueueDone(q, key) ==
    IF key \in q.dirty
    THEN [q EXCEPT !.processing = @ \ {key}, !.queue = Append(@, key)]
    ELSE [q EXCEPT !.processing = @ \ {key}]

QueueForget(q, key) == [q EXCEPT !.failures[key] = 0]

QueueNumRequeues(q, key) == q.failures[key]

QueueAddRateLimited(q, key) ==
    IF q.shuttingDown THEN [q EXCEPT !.failures[key] = @ + 1]
    ELSE [q EXCEPT !.failures[key] = @ + 1, !.waiting = @ \cup {key}]

QueueShutDown(q) == [q EXCEPT !.shuttingDown = TRUE]

RECURSIVE QueueAddAll(_, _)
QueueAddAll(q, keys) ==
    IF keys = <<>> THEN q ELSE QueueAddAll(QueueAdd(q, Head(keys)), Tail(keys))

(***************************************************************************)
(* The event filter: Controller.addEventHandlers.                          *)
(***************************************************************************)
\* the Ready condition's status, ConditionTrue when there is none; the last
\* Ready condition of the list wins (the loops at part_000:112-121)
RECURSIVE ReadyStatusOrTrue(_, _)
ReadyStatusOrTrue(conds, acc) ==
    IF conds = <<>> THEN acc
    ELSE ReadyStatusOrTrue(Tail(conds),
                           IF Head(conds).Type = "Ready" THEN Head(conds).Status ELSE acc)

\* UpdateFunc without the return that ends the Pending-to-Running branch
UpdateFuncKeys_NoReturn(oldPod, newPod) ==
    IF oldPod = newPod THEN <<>>
    ELSE (IF oldPod.Phase = PodPending /\ newPod.Phase = PodRunning
          THEN <<AddKey(newPod)>> ELSE <<>>)
         \o (IF newPod.Phase = PodRunning
                 /\ ReadyStatusOrTrue(oldPod.Conditions, ConditionTrue)
                      # ReadyStatusOrTrue(newPod.Conditions, ConditionTrue)
              THEN <<UpdateKey(newPod)>> ELSE <<>>)

\* UpdateFunc queueing only the transition away from Ready
UpdateFuncKeys_OneWay(oldPod, newPod) ==
    IF oldPod = newPod THEN <<>>
    ELSE IF oldPod.Phase = PodPending /\ newPod.Phase = PodRunning
         THEN <<AddKey(newPod)>>
    ELSE IF newPod.Phase = PodRunning
            /\ ReadyStatusOrTrue(oldPod.Conditions, ConditionTrue) = ConditionTrue
            /\ ReadyStatusOrTrue(newPod.Conditions, ConditionTrue) # ConditionTrue
         THEN <<UpdateKey(newPod)>>
    ELSE <<>>

\* the keys UpdateFunc passes to c.Queue.Add, in order
UpdateFuncKeys(oldPod, newPod) ==
    IF oldPod = newPod THEN <<>>
    ELSE IF oldPod.Phase = PodPending /\ newPod.Phase = PodRunning
         THEN <<AddKey(newPod)>>
    ELSE IF newPod.Phase = PodRunning
            /\ ReadyStatusOrTrue(oldPod.Conditions, ConditionTrue)
                 # ReadyStatusOrTrue(newPod.Conditions, ConditionTrue)
         THEN <<UpdateKey(newPod)>>
    ELSE <<>>

\* an AddFunc that queues the new pod
AddFuncKeys_Enqueue(pod) == <<AddKey(pod)>>

\* AddFunc and DeleteFunc are no-ops
AddFuncKeys(pod) == <<>>
DeleteFuncKeys(pod) == <<>>

(***************************************************************************)
(* The handler's identifiers and the agent address of a pod.               *)
(***************************************************************************)
getConsulServiceID(pod) == pod.Name \o "-" \o pod.Annotation

\* the check id taken to be the service id
getConsulHealthCheckID_ServiceID(pod) == getConsulServiceID(pod)

getConsulHealthCheckID(pod) == getConsulServiceID(pod) \o "-kubernetes-health-check-ttl"

\* HealthCheckHandler.ConsulPort
ConsulPort == "8500"

\* the address updateConsulClient binds the client to
AgentAddr(hostIP) ==
    (IF ConsulPort = "8501" THEN "https" ELSE "http") \o "://" \o hostIP \o ":" \o ConsulPort

ServiceIDs == {getConsulServiceID(MkPod(n, PodRunning, <<>>, 1)) : n \in PodNames}
\* the id of a check somebody else registered with the agent under the Name
\* of pod n's health check
ForeignCheckID(n) == n \o "-manual-check"

CheckIDs ==
    {getConsulHealthCheckID(MkPod(n, PodRunning, <<>>, 1)) : n \in PodNames}
      \cup {ForeignCheckID(n) : n \in PodNames}
Addrs == {AgentAddr(h) : h \in Hosts}

(***************************************************************************)
(* The Consul agents: one per host, reached at AgentAddr(host).  Each      *)
(* holds the services registered with it and its checks by check id.       *)
(***************************************************************************)
NoCheck == [Name |-> Nil]

\* Agent.CheckRegister: the agent refuses a check for a service it does not
\* know; a registration with no ID takes its Name as its check id
AgentCheckRegister(services, checks, addr, name, serviceID, status, notes) ==
    IF serviceID \notin services[addr] THEN checks
    ELSE [checks EXCEPT ![addr][name] =
             [Name |-> name, ServiceID |-> serviceID, Status |-> status,
              Notes |-> "Kubernetes Health Check " \o notes, Output |-> ""]]

AgentCheckRegisterErr(services, addr, serviceID) ==
    IF serviceID \notin services[addr] THEN "ServiceID does not exist" ELSE Nil

\* Agent.UpdateTTL behind FailTTL / PassTTL
AgentUpdateTTL(checks, addr, checkID, output, status) ==
    IF checks[addr][checkID] = NoCheck THEN checks
    ELSE [checks EXCEPT ![addr][checkID].Status = status,
                        ![addr][checkID].Output = output]

AgentUpdateTTLErr(checks, addr, checkID) ==
    IF checks[addr][checkID] = NoCheck THEN "unknown check" ELSE Nil

\* Agent.CheckDeregister: the check is gone afterwards; the agent answers
\* that it does not know the check when it holds none of that id
AgentCheckDeregister(checks, addr, checkID) == [checks EXCEPT ![addr][checkID] = NoCheck]

AgentCheckDeregisterErr(checks, addr, checkID) ==
    IF checks[addr][checkID] = NoCheck THEN "unknown check" ELSE Nil

\* Agent.ChecksWithFilter("Name == `<name>`"): the checks of that name, by id
AgentChecksWithFilter(checks, addr, name) ==
    {id \in CheckIDs : checks[addr][id] # NoCheck /\ checks[addr][id].Name = name}

(***************************************************************************)
(* State.                                                                  *)
(***************************************************************************)
Procs == {"worker", "reconciler"}

VARIABLES
    Queue,          \* c.Queue
    lastEvent,      \* the last notification the informer delivered, with the
                    \* keys the filter passed to Queue.Add for it
    MaxRetries,     \* c.MaxRetries
    pods,           \* the cluster's pods, which the synced informer cache mirrors
    podEvents,      \* pod changes made so far
    agentServices,  \* per agent address, the service ids registered
    agentChecks,    \* per agent address, check id -> check
    agentDown,      \* the agent addresses that answer every call with an error
    webhook,        \* the config-entry webhook: resources, request, response
    faults,         \* failures injected so far
    Client,         \* t.Client: the address it is bound to, or Nil
    run,            \* where Controller.Run stands
    stopCh,         \* "open" or "closed"
    synced,         \* Informer.HasSynced()
    proc,           \* per process: pc, item, err, retries, status, reason, calls
    wkey,           \* the key processNextItem holds
    sweep,          \* Reconcile's podList, its position and the sweeps started
    reports,        \* utilruntime.HandleError calls, per subject
    last,           \* history: what the last finished processNextItem did, until
                    \* the next key is dequeued
    meshErr         \* history: a client binding or an agent call has failed

vars == <<Queue, lastEvent, MaxRetries, pods, podEvents, agentServices, agentChecks,
          agentDown, webhook, faults, Client, run, stopCh, synced, proc, wkey, sweep, reports, last,
          meshErr>>

queueVars == <<Queue, lastEvent>>
envVars == <<pods, podEvents, agentServices>>
agentVars == <<agentServices, agentChecks>>
runVars == <<run, stopCh, synced>>

\* the webhook with no request at hand
NoResponse == [allowed |-> FALSE, message |-> ""]

NoWebhook == [existing |-> {}, request |-> [operation |-> Nil], answered |-> FALSE,
              response |-> NoResponse]

NoEvent == [kind |-> "none", old |-> NoPod, new |-> NoPod, added |-> <<>>,
            before |-> EmptyQueue, delivered |-> FALSE]

IdleProc == [pc |-> "idle", item |-> NoPod, err |-> Nil, retries |-> 0,
             status |-> "", reason |-> "", calls |-> <<>>, returned |-> <<>>]

NoLast == [key |-> Nil, err |-> Nil, exists |-> FALSE, requeues |-> 0, ops |-> <<>>,
           item |-> NoPod, handled |-> <<>>]

NoSweep == [podList |-> <<>>, idx |-> 0, started |-> 0, startedAt |-> 0,
            swept |-> FALSE, doneAt |-> 0, err |-> Nil, log |-> <<>>]

ReportSubjects == Keys \cup {"sync"}

(***************************************************************************)
(* The informer's notifications.                                           *)
(***************************************************************************)
UpdateFunc(oldPod, newPod) == Queue' = QueueAddAll(Queue, UpdateFuncKeys(oldPod, newPod))

AddFunc(pod) == Queue' = QueueAddAll(Queue, AddFuncKeys(pod))

DeleteFunc(pod) == Queue' = QueueAddAll(Queue, DeleteFuncKeys(pod))

(***************************************************************************)
(* The state after construction: the controller and the handler are built, *)
(* Run has not been called, the cluster holds some pods and the agents     *)
(* some services.                                                          *)
(***************************************************************************)
InitPodStates(n) ==
    {NoPod, MkPod(n, PodPending, <<>>, 1)}
      \cup {MkPod(n, PodRunning, <<ReadyCond(s)>>, 1) : s \in {ConditionTrue, ConditionFalse}}

Init ==
    /\ Queue = EmptyQueue
    /\ lastEvent = NoEvent
    /\ MaxRetries \in 0..MaxRetriesCap
    /\ pods \in [PodNames -> UNION {InitPodStates(n) : n \in PodNames}]
    /\ \A n \in PodNames :
          pods[n] \in IF n \in ClusterPods THEN InitPodStates(n) ELSE {NoPod}
    /\ podEvents = 0
    /\ agentServices = [a \in Addrs |-> {}]
    /\ agentChecks = [a \in Addrs |-> [id \in CheckIDs |-> NoCheck]]
    /\ agentDown = {}
    /\ webhook = NoWebhook
    /\ faults = 0
    /\ Client = Nil
    /\ run = "init"
    /\ stopCh = "open"
    /\ synced = FALSE
    /\ proc = [p \in Procs |-> IdleProc]
    /\ wkey = Nil
    /\ sweep = NoSweep
    /\ reports = [s \in ReportSubjects |-> 0]
    /\ last = NoLast
    /\ meshErr = FALSE

\* whether a step may fail: always no, and yes while the fault budget lasts
FailChoices == IF faults < MaxFaults THEN {FALSE, TRUE} ELSE {FALSE}

Fault(fail) == faults' = IF fail THEN faults + 1 ELSE faults

\* whether a call to the agent the client is bound to may fail: it does when
\* the agent is down
AgentFailChoices == IF Client \in agentDown THEN {TRUE} ELSE FailChoices

AgentFault(fail) == faults' = IF fail /\ Client \notin agentDown THEN faults + 1 ELSE faults

(***************************************************************************)
(* Controller.Run, one step at a time, and the informer it starts.         *)
(***************************************************************************)
\* the wait for the cache taken to be over at once
WaitForCacheSync_NoWait(hasSynced) == TRUE

\* cache.WaitForCacheSync(stopCh, c.HasSynced) returns true once HasSynced does
WaitForCacheSync(hasSynced) == hasSynced

\* Run returns: the deferred c.Queue.ShutDown() runs
RunReturns ==
    /\ run' = "returned"
    /\ Queue' = QueueShutDown(Queue)

Run ==
    /\ CASE run = "init" ->
              \* setupInformer, setupWorkQueue, addEventHandlers, go Informer.Run
              /\ run' = "syncing"
              /\ UNCHANGED <<Queue, proc, reports>>
         [] run = "syncing" ->
              \* cache.WaitForCacheSync(stopCh, c.HasSynced)
              \/ /\ WaitForCacheSync(synced)
                 /\ run' = "until"
                 /\ UNCHANGED <<Queue, proc, reports>>
              \/ /\ stopCh = "closed"
                 /\ reports' = [reports EXCEPT !["sync"] = @ + 1]
                 /\ RunReturns
                 /\ UNCHANGED proc
         [] run = "until" ->
              \* wait.Until: stop when stopCh is closed, else call runWorker
              IF stopCh = "closed"
              THEN RunReturns /\ UNCHANGED <<proc, reports>>
              ELSE /\ run' = "working"
                   /\ proc' = [proc EXCEPT !["worker"].pc = "get"]
                   /\ UNCHANGED <<Queue, reports>>
         [] run = "working" ->
              \* runWorker has returned: wait for the period or for stopCh
              /\ proc["worker"].pc = "exited"
              /\ IF stopCh = "closed"
                 THEN RunReturns /\ UNCHANGED <<proc, reports>>
                 ELSE run' = "until" /\ UNCHANGED <<Queue, proc, reports>>
         [] OTHER -> FALSE
    /\ UNCHANGED <<agentDown, webhook, lastEvent, MaxRetries, pods, podEvents, agentServices, agentChecks,
                   faults, Client, stopCh, synced, wkey, sweep, last, meshErr>>

\* the informer is running and delivers notifications
InformerLive == run \in {"syncing", "until", "working"} /\ stopCh = "open"

\* the informer's initial list: the cache is filled, AddFunc is called for the
\* pods found and HasSynced turns true
InformerSync ==
    /\ InformerLive
    /\ ~synced
    /\ synced' = TRUE
    /\ \/ \E n \in PodNames : pods[n] # NoPod /\ AddFunc(pods[n])
       \/ (\A n \in PodNames : pods[n] = NoPod) /\ UNCHANGED Queue
    /\ UNCHANGED <<agentDown, webhook, lastEvent, MaxRetries, pods, podEvents, agentServices, agentChecks, faults,
                   Client, run, stopCh, proc, wkey, sweep, reports, last, meshErr>>

\* close(stopCh)
Stop ==
    /\ run # "init"
    /\ stopCh = "open"
    /\ stopCh' = "closed"
    /\ UNCHANGED <<agentDown, webhook, Queue, lastEvent, MaxRetries, pods, podEvents, agentServices,
                   agentChecks, faults, Client, run, synced, proc, wkey, sweep,
                   reports, last, meshErr>>

(***************************************************************************)
(* The cluster: pods change, appear and disappear; the synced informer     *)
(* updates its cache and calls the event handlers.                         *)
(***************************************************************************)
PhaseRank(ph) == IF ph = PodPending THEN 1 ELSE IF ph = PodRunning THEN 2 ELSE 3

PodChange(n, newPod) ==
    /\ InformerLive /\ synced
    /\ podEvents < MaxPodEvents
    /\ pods[n] # NoPod
    /\ newPod # pods[n]
    /\ PhaseRank(newPod.Phase) >= PhaseRank(pods[n].Phase)
    /\ pods' = [pods EXCEPT ![n] = newPod]
    /\ podEvents' = podEvents + 1
    /\ UpdateFunc(pods[n], newPod)
    /\ UNCHANGED <<agentDown, webhook, lastEvent, MaxRetries, agentServices, agentChecks, faults, Client, run, stopCh,
                   synced, proc, wkey, sweep, reports, last, meshErr>>

PodCreate(n) ==
    /\ InformerLive /\ synced
    /\ podEvents < MaxPodEvents
    /\ pods[n] = NoPod
    /\ pods' = [pods EXCEPT ![n] = MkPod(n, PodPending, <<>>, 1)]
    /\ podEvents' = podEvents + 1
    /\ AddFunc(pods'[n])
    /\ UNCHANGED <<agentDown, webhook, lastEvent, MaxRetries, agentServices, agentChecks, faults, Client, run, stopCh,
                   synced, proc, wkey, sweep, reports, last, meshErr>>

PodDelete(n) ==
    /\ InformerLive /\ synced
    /\ podEvents < MaxPodEvents
    /\ pods[n] # NoPod
    /\ pods' = [pods EXCEPT ![n] = NoPod]
    /\ podEvents' = podEvents + 1
    /\ DeleteFunc(pods[n])
    /\ UNCHANGED <<agentDown, webhook, lastEvent, MaxRetries, agentServices, agentChecks, faults, Client, run, stopCh,
                   synced, proc, wkey, sweep, reports, last, meshErr>>

\* the pod's sidecar finishes registering the service with its host's agent
ServiceUp(n) ==
    /\ pods[n] # NoPod
    /\ getConsulServiceID(pods[n]) \notin agentServices[AgentAddr(pods[n].HostIP)]
    /\ agentServices' = [agentServices EXCEPT ![AgentAddr(pods[n].HostIP)] =
                            @ \cup {getConsulServiceID(pods[n])}]
    /\ UNCHANGED <<agentDown, webhook, Queue, lastEvent, MaxRetries, pods, podEvents, agentChecks, faults,
                   Client, run, stopCh, synced, proc, wkey, sweep, reports, last,
                   meshErr>>

\* the delaying queue's timer for a rate-limited key fires: Add(key)
DelayedAdd(key) ==
    /\ key \in Queue.waiting
    /\ Queue' = QueueAdd([Queue EXCEPT !.waiting = @ \ {key}], key)
    /\ UNCHANGED <<agentDown, webhook, lastEvent, MaxRetries, pods, podEvents, agentServices, agentChecks,
                   faults, Client, run, stopCh, synced, proc, wkey, sweep, reports,
                   last, meshErr>>


(***************************************************************************)
(* The worker loop: Controller.processNextItem, one step at a time.        *)
(***************************************************************************)
W == "worker"
R == "reconciler"

HandlerPcs == {"oc_bind", "poll", "register", "ou_bind", "ou_status", "od_bind",
               "od_dereg", "finish"}

\* the pod the indexer holds under keyRaw, NoPod when there is none
GetByKey(keyRaw) ==
    IF \E n \in PodNames : pods[n] # NoPod /\ MetaNamespaceKeyFunc(pods[n]) = keyRaw
    THEN CHOOSE pod \in {pods[n] : n \in PodNames} :
            pod # NoPod /\ MetaNamespaceKeyFunc(pod) = keyRaw
    ELSE NoPod

\* the queue calls processNextItem makes once GetByKey has failed (218-227)
LookupErrOps(q, key, maxRetries) ==
    IF QueueNumRequeues(q, key) < maxRetries
    THEN <<"AddRateLimited">>
    ELSE <<"Forget", "HandleError">>

\* the queue calls processNextItem makes once the handler has returned err,
\* for an object that exists (246-252)
HandlerOps(q, key, err, maxRetries) ==
    IF err = Nil THEN <<"Forget">>
    ELSE IF QueueNumRequeues(q, key) < maxRetries THEN <<"AddRateLimited">>
    ELSE <<>>

\* the closing Done (254-257)
DoneOps(err) == IF err = Nil THEN <<"Done">> ELSE <<>>

RECURSIVE ApplyQueueOps(_, _, _)
ApplyQueueOps(q, key, ops) ==
    IF ops = <<>> THEN q
    ELSE ApplyQueueOps(
           CASE Head(ops) = "AddRateLimited" -> QueueAddRateLimited(q, key)
             [] Head(ops) = "Forget" -> QueueForget(q, key)
             [] Head(ops) = "Done" -> QueueDone(q, key)
             [] OTHER -> q,
           key, Tail(ops))

CountOp(ops, op) == Cardinality({i \in DOMAIN ops : ops[i] = op})

\* processNextItem returns true: its queue calls are made and recorded
Finished(key, exists, err, ops) ==
    /\ Queue' = ApplyQueueOps(Queue, key, ops)
    /\ reports' = [reports EXCEPT ![key] = @ + CountOp(ops, "HandleError")]
    /\ last' = [key |-> key, err |-> err, exists |-> exists,
                requeues |-> QueueNumRequeues(Queue, key), ops |-> ops,
                item |-> proc[W].item, handled |-> proc[W].returned]

\* key, quit := c.Queue.Get()
Get ==
    /\ proc[W].pc = "get"
    /\ Queue.queue # <<>> \/ Queue.shuttingDown
    /\ IF Queue.queue = <<>>
       THEN /\ proc' = [proc EXCEPT ![W].pc = "exited"]
            /\ UNCHANGED <<Queue, wkey, last>>
       ELSE /\ wkey' = Head(Queue.queue)
            /\ last' = NoLast
            /\ Queue' = [Queue EXCEPT !.queue = Tail(@),
                                      !.processing = @ \cup {Head(Queue.queue)},
                                      !.dirty = @ \ {Head(Queue.queue)}]
            /\ proc' = [proc EXCEPT ![W].pc = "lookup"]
    /\ UNCHANGED <<agentDown, webhook, lastEvent, MaxRetries, pods, podEvents, agentServices, agentChecks,
                   faults, Client, run, stopCh, synced, sweep, reports, meshErr>>

\* every existing object dispatched to ObjectUpdated
DispatchPc_AlwaysUpdate(create) == "ou_bind"

\* the handler operation processNextItem calls first for an existing object
DispatchPc(create) == IF create THEN "oc_bind" ELSE "ou_bind"

\* the key is parsed, the object is fetched from the indexer, and the handler
\* is entered when it exists
Lookup ==
    /\ proc[W].pc = "lookup"
    /\ proc[R].pc = "idle"
    /\ \E fail \in FailChoices :
         LET formattedKey == Split(wkey)
             create == formattedKey[1] = "ADD"
             keyRaw == Join(Tail(formattedKey), "/")
             item == GetByKey(keyRaw)
         IN  /\ Fault(fail)
             /\ IF fail
                THEN /\ Finished(wkey, FALSE, "lookup error",
                                 LookupErrOps(Queue, wkey, MaxRetries)
                                   \o DoneOps("lookup error"))
                     /\ proc' = [proc EXCEPT ![W] = [IdleProc EXCEPT !.pc = "get"]]
                ELSE IF item = NoPod
                THEN /\ Finished(wkey, FALSE, Nil, DoneOps(Nil))
                     /\ proc' = [proc EXCEPT ![W] = [IdleProc EXCEPT !.pc = "get"]]
                ELSE /\ proc' = [proc EXCEPT ![W] =
                                   [IdleProc EXCEPT !.pc = DispatchPc(create),
                                                    !.item = item]]
                     /\ UNCHANGED <<Queue, reports, last>>
    /\ UNCHANGED <<agentDown, webhook, lastEvent, MaxRetries, pods, podEvents, agentServices, agentChecks,
                   Client, run, stopCh, synced, wkey, sweep, meshErr>>

\* the handler has returned err for an existing object: Forget or retry, Done
FinishItem ==
    /\ proc[W].pc = "finish"
    /\ Finished(wkey, TRUE, proc[W].err,
                HandlerOps(Queue, wkey, proc[W].err, MaxRetries) \o DoneOps(proc[W].err))
    /\ proc' = [proc EXCEPT ![W] = [IdleProc EXCEPT !.pc = "get"]]
    /\ UNCHANGED <<agentDown, webhook, lastEvent, MaxRetries, pods, podEvents, agentServices, agentChecks,
                   faults, Client, run, stopCh, synced, wkey, sweep, meshErr>>


(***************************************************************************)
(* The HealthCheckHandler's operations, one agent call at a time.  The     *)
(* worker runs ObjectCreated and ObjectUpdated, the reconciler Reconcile;  *)
(* both go through the handler's one Client field.                         *)
(***************************************************************************)
MeshCall(by, op, addr, id, svc, status, reason, err) ==
    [by |-> by, op |-> op, addr |-> addr, id |-> id, svc |-> svc, status |-> status,
     reason |-> reason, err |-> err]

\* the handler operation a process is in
Operation(self) ==
    IF self = R THEN "Reconcile"
    ELSE IF proc[self].pc \in {"oc_bind", "poll", "register"} THEN "ObjectCreated"
    ELSE IF proc[self].pc \in {"od_bind", "od_dereg"} THEN "ObjectDeleted"
    ELSE "ObjectUpdated"

\* the pod's check as the agent of its host holds it
CheckOf(checks, pod) ==
    LET held == checks[AgentAddr(pod.HostIP)]
    IN  IF getConsulHealthCheckID(pod) \in DOMAIN held
        THEN held[getConsulHealthCheckID(pod)] ELSE NoCheck

\* the record of a handler operation that has returned: its error and the
\* pod's check as it is then
Returned(op, err, checks, pod) == [op |-> op, err |-> err, check |-> CheckOf(checks, pod)]

\* where a process goes on when its handler operation is over for this pod:
\* Reconcile to its next pod, the worker to the end of processNextItem with
\* the error ObjectCreated or ObjectUpdated returned
Return(self, err, checks) ==
    IF self = R THEN [proc[self] EXCEPT !.pc = "rc_next", !.err = err]
    ELSE [proc[self] EXCEPT !.pc = "finish", !.err = err,
                            !.returned = Append(@, Returned(Operation(self), err, checks,
                                                            proc[self].item))]

\* t.updateConsulClient(pod), and what its caller does with the result
updateConsulClient(self) ==
    /\ proc[self].pc \in {"oc_bind", "ou_bind", "od_bind", "rc_bind"}
    /\ \E fail \in FailChoices :
         LET addr == AgentAddr(proc[self].item.HostIP)
             err == IF fail THEN "client error" ELSE Nil
             call == MeshCall(Operation(self), "APIClient", addr, "", "", "", "", err)
         IN  /\ Fault(fail)
             /\ IF fail
                THEN /\ Client' = Nil
                     /\ meshErr' = TRUE
                     /\ proc' = [proc EXCEPT ![self] =
                                   [Return(self, err, agentChecks) EXCEPT
                                      !.calls = Append(@, call)]]
                ELSE /\ Client' = addr
                     /\ meshErr' = meshErr
                     /\ proc' = [proc EXCEPT ![self] =
                          CASE proc[self].pc = "oc_bind" ->
                                 \* registerConsulHealthCheck(id, svc, passing, "")
                                 [proc[self] EXCEPT !.pc = "poll", !.retries = 0,
                                                    !.status = healthCheckPassing,
                                                    !.reason = "",
                                                    !.calls = Append(@, call)]
                            [] proc[self].pc = "ou_bind" ->
                                 [proc[self] EXCEPT !.pc = "ou_status",
                                                    !.calls = Append(@, call)]
                            [] proc[self].pc = "od_bind" ->
                                 [proc[self] EXCEPT !.pc = "od_dereg",
                                                    !.calls = Append(@, call)]
                            [] OTHER -> [proc[self] EXCEPT !.pc = "rc_checks",
                                                           !.calls = Append(@, call)]]
    /\ UNCHANGED <<agentDown, webhook, Queue, lastEvent, MaxRetries, pods, podEvents, agentServices,
                   agentChecks, run, stopCh, synced, wkey, sweep, reports, last>>

\* a retry test that lets two more polls through
RetriesExhausted_Late(retries) == retries > PollRetryLimit + 2

\* if retries > 10
RetriesExhausted(retries) == retries > PollRetryLimit

\* one call of the function registerConsulHealthCheck hands to backoff.Retry:
\* past the retry limit it returns nil, which ends the retrying with a nil
\* error; before, it lists the agent's services and returns nil when the
\* service is among them and an error, to be retried, when it is not
PollServices(self) ==
    /\ proc[self].pc = "poll"
    /\ IF RetriesExhausted(proc[self].retries)
       THEN /\ proc' = [proc EXCEPT ![self].pc = "register"]
            /\ UNCHANGED <<faults, meshErr>>
       ELSE IF Client = Nil
       THEN /\ proc' = [proc EXCEPT ![self].pc = "panic"]
            /\ UNCHANGED <<faults, meshErr>>
       ELSE \E fail \in AgentFailChoices :
              LET svc == getConsulServiceID(proc[self].item)
                  err == IF fail THEN "agent error"
                         ELSE IF svc \in agentServices[Client] THEN Nil
                         ELSE "did not find serviceID"
                  call == MeshCall(Operation(self), "Services", Client, "", svc, "", "",
                                   err)
              IN  /\ AgentFault(fail)
                  /\ meshErr' = (meshErr \/ fail)
                  /\ proc' = [proc EXCEPT
                                ![self].retries = @ + 1,
                                ![self].calls = Append(@, call),
                                ![self].pc = IF err = Nil THEN "register" ELSE "poll"]
    /\ UNCHANGED <<agentDown, webhook, Queue, lastEvent, MaxRetries, pods, podEvents, agentServices,
                   agentChecks, Client, run, stopCh, synced, wkey, sweep, reports, last>>

\* t.Client.Agent().CheckRegister(...), and the return to the caller
CheckRegister(self) ==
    /\ proc[self].pc = "register"
    /\ IF Client = Nil
       THEN /\ proc' = [proc EXCEPT ![self].pc = "panic"]
            /\ UNCHANGED <<faults, meshErr, agentChecks>>
       ELSE \E fail \in AgentFailChoices :
              LET id == getConsulHealthCheckID(proc[self].item)
                  svc == getConsulServiceID(proc[self].item)
                  err == IF fail THEN "agent error"
                         ELSE AgentCheckRegisterErr(agentServices, Client, svc)
                  call == MeshCall(Operation(self), "CheckRegister", Client, id, svc,
                                   proc[self].status, proc[self].reason, err)
              IN  /\ AgentFault(fail)
                  /\ meshErr' = (meshErr \/ err # Nil)
                  /\ agentChecks' =
                       IF fail THEN agentChecks
                       ELSE AgentCheckRegister(agentServices, agentChecks, Client, id, svc,
                                               proc[self].status, proc[self].reason)
                  /\ proc' = [proc EXCEPT ![self] =
                       IF self = W /\ err = Nil
                       THEN \* ObjectCreated returned nil: ObjectUpdated(item)
                            [proc[self] EXCEPT !.pc = "ou_bind", !.err = Nil,
                                               !.calls = Append(@, call),
                                               !.returned =
                                                  Append(@, Returned("ObjectCreated", Nil,
                                                                     agentChecks',
                                                                     proc[self].item))]
                       ELSE [Return(self, err, agentChecks') EXCEPT
                               !.calls = Append(@, call)]]
    /\ UNCHANGED <<agentDown, webhook, Queue, lastEvent, MaxRetries, pods, podEvents, agentServices,
                   Client, run, stopCh, synced, wkey, sweep, reports, last>>

RECURSIVE FirstReady(_)
\* the first Ready condition of the list, NoCheck's like when there is none
FirstReady(conds) ==
    IF conds = <<>> THEN [Type |-> Nil]
    ELSE IF Head(conds).Type = "Ready" THEN Head(conds)
    ELSE FirstReady(Tail(conds))

\* a status call chosen against the check's stored status
ObjectUpdatedCall_Toggle(pod) ==
    IF CheckOf(agentChecks, pod) # NoCheck
         /\ CheckOf(agentChecks, pod).Status = healthCheckCritical
    THEN [op |-> "PassTTL", reason |-> ""]
    ELSE [op |-> "FailTTL", reason |-> ""]

\* the status call ObjectUpdated's loop makes: its operation and its reason,
\* op Nil when the loop ends without a call
ObjectUpdatedCall(pod) ==
    LET y == FirstReady(pod.Conditions)
    IN  IF y.Type = Nil THEN [op |-> Nil, reason |-> ""]
        ELSE IF y.Status # ConditionTrue THEN [op |-> "FailTTL", reason |-> y.Message]
        ELSE [op |-> "PassTTL", reason |-> y.Message]

\* the status FailTTL / PassTTL leave the check in
TTLStatus(op) == IF op = "FailTTL" THEN healthCheckCritical ELSE healthCheckPassing

\* setConsulHealthCheckStatus
setConsulHealthCheckStatusOp(fail) == IF fail THEN "FailTTL" ELSE "PassTTL"

\* ObjectUpdated after the client is bound: the loop over the conditions with
\* its one status call, t.Client = nil, and the return
ObjectUpdatedStatus ==
    /\ proc[W].pc = "ou_status"
    /\ LET c == ObjectUpdatedCall(proc[W].item)
           id == getConsulHealthCheckID(proc[W].item)
       IN  IF c.op = Nil
           THEN /\ proc' = [proc EXCEPT ![W] = Return(W, Nil, agentChecks)]
                /\ UNCHANGED <<faults, meshErr, agentChecks>>
           ELSE IF Client = Nil
           THEN /\ proc' = [proc EXCEPT ![W].pc = "panic"]
                /\ UNCHANGED <<faults, meshErr, agentChecks>>
           ELSE \E fail \in AgentFailChoices :
                  LET err == IF fail THEN "agent error"
                             ELSE AgentUpdateTTLErr(agentChecks, Client, id)
                      call == MeshCall("ObjectUpdated", c.op, Client, id, "",
                                       TTLStatus(c.op), c.reason, err)
                  IN  /\ AgentFault(fail)
                      /\ meshErr' = (meshErr \/ err # Nil)
                      /\ agentChecks' =
                           IF fail THEN agentChecks
                           ELSE AgentUpdateTTL(agentChecks, Client, id, c.reason,
                                               TTLStatus(c.op))
                      /\ proc' = [proc EXCEPT ![W] =
                                    [Return(W, err, agentChecks') EXCEPT
                                       !.calls = Append(@, call)]]
    /\ Client' = IF proc'[W].pc = "panic" THEN Client ELSE Nil
    /\ UNCHANGED <<agentDown, webhook, Queue, lastEvent, MaxRetries, pods, podEvents, agentServices,
                   run, stopCh, synced, wkey, sweep, reports, last>>

\* what ObjectDeleted returns once deregisterConsulHealthCheck has returned err
ObjectDeletedResult_Propagate(err) == err

ObjectDeletedResult(err) == Nil

\* ObjectDeleted after the client is bound: deregisterConsulHealthCheck and
\* the return
ObjectDeletedDeregister ==
    /\ proc[W].pc = "od_dereg"
    /\ IF Client = Nil
       THEN /\ proc' = [proc EXCEPT ![W].pc = "panic"]
            /\ UNCHANGED <<faults, meshErr, agentChecks>>
       ELSE \E fail \in AgentFailChoices :
              LET id == getConsulHealthCheckID(proc[W].item)
                  err == IF fail THEN "agent error"
                         ELSE AgentCheckDeregisterErr(agentChecks, Client, id)
                  call == MeshCall("ObjectDeleted", "CheckDeregister", Client, id, "",
                                   "", "", err)
              IN  /\ AgentFault(fail)
                  /\ meshErr' = (meshErr \/ err # Nil)
                  /\ agentChecks' =
                       IF fail THEN agentChecks
                       ELSE AgentCheckDeregister(agentChecks, Client, id)
                  /\ proc' = [proc EXCEPT ![W] =
                                [Return(W, ObjectDeletedResult(err), agentChecks') EXCEPT
                                   !.calls = Append(@, call)]]
    /\ UNCHANGED <<agentDown, webhook, Queue, lastEvent, MaxRetries, pods, podEvents, agentServices,
                   Client, run, stopCh, synced, wkey, sweep, reports, last>>


(***************************************************************************)
(* HealthCheckHandler.Reconcile: the sweep over the listed pods.           *)
(***************************************************************************)
\* getReadyStatusAndReason: the first Ready condition's status and reason,
\* and an error when the pod has none
getReadyStatusAndReason(pod) ==
    LET y == FirstReady(pod.Conditions)
    IN  IF y.Type = Nil
        THEN [status |-> ConditionTrue, reason |-> "", err |-> "no ready status"]
        ELSE [status |-> y.Status, reason |-> y.Reason, err |-> Nil]

\* what Reconcile does for a Running pod once it holds the agent's checks of
\* the pod's check name: "skip", "register" or "set" with the status and the
\* reason to use, or "none" when the check needs no update
ReconcileDecision(checks, agentState, addr, pod) ==
    LET id == getConsulHealthCheckID(pod)
        r == getReadyStatusAndReason(pod)
    IN  IF checks = {} THEN [do |-> "skip", status |-> "", reason |-> "", err |-> Nil]
        ELSE IF r.err # Nil
        THEN [do |-> "skip", status |-> "", reason |-> "", err |-> r.err]
        ELSE IF id \notin checks
        THEN IF r.status = ConditionFalse
             THEN [do |-> "register", status |-> healthCheckCritical,
                   reason |-> r.reason, err |-> Nil]
             ELSE [do |-> "register", status |-> healthCheckPassing, reason |-> "",
                   err |-> Nil]
        ELSE LET checkStatus == agentState[addr][id].Status
                 toPass == checkStatus = healthCheckCritical /\ r.status = ConditionTrue
             IN  IF toPass
                 THEN [do |-> "set", status |-> healthCheckPassing, reason |-> "",
                       err |-> Nil]
                 ELSE IF checkStatus = healthCheckPassing /\ r.status = ConditionFalse
                 THEN [do |-> "set", status |-> healthCheckCritical, reason |-> r.reason,
                       err |-> Nil]
                 ELSE [do |-> "none", status |-> "", reason |-> "", err |-> Nil]

\* the pods the listing returns, in a fixed order
RECURSIVE SeqOf(_)
SeqOf(S) == IF S = {} THEN <<>> ELSE LET x == CHOOSE x \in S : TRUE IN <<x>> \o SeqOf(S \ {x})

\* Reconcile is called and lists the pods
ListPods(alone) ==
    /\ proc[R].pc = "idle"
    /\ alone => proc[W].pc \notin HandlerPcs
    /\ sweep.started < MaxSweeps
    /\ \E fail \in FailChoices :
         /\ Fault(fail)
         /\ IF fail
            THEN /\ sweep' = [sweep EXCEPT !.started = @ + 1, !.err = "list error",
                                           !.swept = FALSE]
                 /\ UNCHANGED proc
            ELSE /\ sweep' = [sweep EXCEPT
                                !.started = @ + 1, !.err = Nil, !.idx = 1,
                                !.swept = FALSE,
                                !.startedAt = podEvents,
                                !.podList = SeqOf({pods[n] : n \in PodNames} \ {NoPod})]
                 /\ proc' = [proc EXCEPT ![R] = [IdleProc EXCEPT !.pc = "rc_next"]]
    /\ UNCHANGED <<agentDown, webhook, Queue, lastEvent, MaxRetries, pods, podEvents, agentServices,
                   agentChecks, Client, run, stopCh, synced, wkey, reports, last, meshErr>>

\* a sweep that starts while the worker is in none of the handler's operations
ReconcileList == ListPods(TRUE)

\* a sweep that starts whatever the worker is doing: Reconcile is an exported
\* method of the handler the worker calls, and takes no lock
ConcurrentReconcileList == ListPods(FALSE)

\* every listed pod taken for a Running one
ReconcileSkips_Never(pod) == FALSE

\* the loop's first test: a pod that is not Running is passed over
ReconcileSkips(pod) == pod.Phase # PodRunning

\* what the loop body did for the pod it has just left: the pod, the calls
\* made for it and the error it ended with
PodOutcome(p) == [pod |-> p.item.Name, phase |-> p.item.Phase, calls |-> p.calls,
                  err |-> p.err]

\* the loop head: the outcome for the pod just left is logged and the next
\* pod of the list is taken, passed over unless Running; past the last pod
\* Reconcile returns nil
ReconcileNext ==
    /\ proc[R].pc = "rc_next"
    /\ LET log == IF proc[R].item # NoPod THEN Append(sweep.log, PodOutcome(proc[R]))
                  ELSE sweep.log
       IN  IF sweep.idx > Len(sweep.podList)
           THEN /\ sweep' = [sweep EXCEPT !.swept = TRUE, !.doneAt = sweep.startedAt,
                                           !.podList = <<>>, !.idx = 0, !.log = <<>>]
                /\ proc' = [proc EXCEPT ![R] = IdleProc]
           ELSE /\ sweep' = [sweep EXCEPT !.idx = @ + 1, !.log = log]
                /\ proc' = [proc EXCEPT ![R] =
                     IF ReconcileSkips(sweep.podList[sweep.idx])
                     THEN [IdleProc EXCEPT !.pc = "rc_next"]
                     ELSE [IdleProc EXCEPT !.pc = "rc_bind",
                                           !.item = sweep.podList[sweep.idx]]]
    /\ UNCHANGED <<agentDown, webhook, Queue, lastEvent, MaxRetries, pods, podEvents, agentServices,
                   agentChecks, faults, Client, run, stopCh, synced, wkey, reports,
                   last, meshErr>>

\* ChecksWithFilter and the decision taken on its answer
ReconcileChecks ==
    /\ proc[R].pc = "rc_checks"
    /\ IF Client = Nil
       THEN /\ proc' = [proc EXCEPT ![R].pc = "panic"]
            /\ UNCHANGED <<faults, meshErr>>
       ELSE \E fail \in AgentFailChoices :
              LET pod == proc[R].item
                  id == getConsulHealthCheckID(pod)
                  checks == AgentChecksWithFilter(agentChecks, Client, id)
                  d == ReconcileDecision(checks, agentChecks, Client, pod)
                  \* the answer as the call's record keeps it: how many checks
                  \* it held, and the stored status of the pod's check
                  call == MeshCall("Reconcile", "ChecksWithFilter", Client, id, "",
                                   IF fail THEN ""
                                   ELSE IF id \in checks THEN agentChecks[Client][id].Status
                                   ELSE IF checks = {} THEN "no checks"
                                   ELSE "other checks",
                                   "", IF fail THEN "agent error" ELSE Nil)
              IN  /\ AgentFault(fail)
                  /\ meshErr' = (meshErr \/ fail)
                  /\ proc' = [proc EXCEPT ![R] =
                       IF fail
                       THEN [Return(R, "agent error", agentChecks) EXCEPT
                               !.calls = Append(@, call)]
                       ELSE CASE d.do = "register" ->
                                   [proc[R] EXCEPT !.pc = "poll", !.retries = 0,
                                                   !.status = d.status,
                                                   !.reason = d.reason,
                                                   !.calls = Append(@, call)]
                              [] d.do = "set" ->
                                   [proc[R] EXCEPT !.pc = "rc_status",
                                                   !.status = d.status,
                                                   !.reason = d.reason,
                                                   !.calls = Append(@, call)]
                              [] OTHER -> [Return(R, d.err, agentChecks) EXCEPT
                                             !.calls = Append(@, call)]]
    /\ UNCHANGED <<agentDown, webhook, Queue, lastEvent, MaxRetries, pods, podEvents, agentServices,
                   agentChecks, Client, run, stopCh, synced, wkey, sweep, reports, last>>

\* setConsulHealthCheckStatus from Reconcile
ReconcileStatus ==
    /\ proc[R].pc = "rc_status"
    /\ IF Client = Nil
       THEN /\ proc' = [proc EXCEPT ![R].pc = "panic"]
            /\ UNCHANGED <<faults, meshErr, agentChecks>>
       ELSE \E fail \in AgentFailChoices :
              LET id == getConsulHealthCheckID(proc[R].item)
                  op == setConsulHealthCheckStatusOp(proc[R].status = healthCheckCritical)
                  err == IF fail THEN "agent error"
                         ELSE AgentUpdateTTLErr(agentChecks, Client, id)
                  call == MeshCall("Reconcile", op, Client, id, "", TTLStatus(op),
                                   proc[R].reason, err)
              IN  /\ AgentFault(fail)
                  /\ meshErr' = (meshErr \/ err # Nil)
                  /\ agentChecks' =
                       IF fail THEN agentChecks
                       ELSE AgentUpdateTTL(agentChecks, Client, id, proc[R].reason,
                                           TTLStatus(op))
                  /\ proc' = [proc EXCEPT ![R] =
                                [Return(R, err, agentChecks') EXCEPT
                                   !.calls = Append(@, call)]]
    /\ UNCHANGED <<agentDown, webhook, Queue, lastEvent, MaxRetries, pods, podEvents, agentServices,
                   Client, run, stopCh, synced, wkey, sweep, reports, last>>

(***************************************************************************)
(* The system: the controller, its worker, the reconciler, the cluster     *)
(* and the agents.  In this specification a Reconcile sweep and the        *)
(* worker's handler calls do not overlap.                                  *)
(***************************************************************************)
ClusterNext ==
    \/ \E n \in ClusterPods : \E newPod \in ClusterPodStates(n) : PodChange(n, newPod)
    \/ \E n \in ClusterPods : PodCreate(n)
    \/ \E n \in ClusterPods : PodDelete(n)
    \/ \E n \in ClusterPods : ServiceUp(n)
    \/ Stop

WorkerNext ==
    \/ Get
    \/ Lookup
    \/ updateConsulClient(W)
    \/ PollServices(W)
    \/ CheckRegister(W)
    \/ ObjectUpdatedStatus
    \/ FinishItem

ReconcilerNext ==
    \/ ReconcileList
    \/ ReconcileNext
    \/ updateConsulClient(R)
    \/ PollServices(R)
    \/ CheckRegister(R)
    \/ ReconcileChecks
    \/ ReconcileStatus

Next ==
    \/ Run
    \/ InformerSync
    \/ \E key \in Keys : DelayedAdd(key)
    \/ ClusterNext
    \/ WorkerNext
    \/ ReconcilerNext

Spec == Init /\ [][Next]_vars


\* the goroutines are scheduled and the delaying queue's timers fire; the
\* cluster, the injected failures and the stop signal are under no obligation
FairSpec ==
    /\ Spec
    /\ WF_vars(Run)
    /\ WF_vars(InformerSync)
    /\ WF_vars(\E key \in Keys : DelayedAdd(key))
    /\ WF_vars(WorkerNext)
    /\ WF_vars(ReconcilerNext)

\* the last processNextItem ended with the handler failing on key and the key
\* handed to the rate limiter for a retry
RetryScheduled(key) ==
    /\ last.key = key /\ last.exists /\ last.err # Nil
    /\ last.requeues < MaxRetries
    /\ CountOp(last.ops, "AddRateLimited") = 1

\* C5: after a handler failure on a key whose requeue count is below
\* MaxRetries the key is re-added through the rate limiter and a later Get()
\* delivers it to the worker loop again: once the rate limiter's timer for the
\* key has fired, the key is in the queue for the worker's next Get().
C5_FailedKeyIsRedelivered ==
    \A key \in Keys :
        (RetryScheduled(key) /\ key \notin Queue.waiting /\ ~Queue.shuttingDown
           /\ proc[W].pc = "get")
        => \E i \in DOMAIN Queue.queue : Queue.queue[i] = key

\* C6: a key whose processing fails with its requeue count at MaxRetries (its
\* MaxRetries+1st failure) is forgotten, is not re-added, and exactly one
\* error report is emitted for it.
C6_ExhaustedKeyForgottenAndReported ==
    (last.key # Nil /\ last.err # Nil /\ last.requeues >= MaxRetries) =>
        /\ CountOp(last.ops, "Forget") = 1
        /\ CountOp(last.ops, "AddRateLimited") = 0
        /\ CountOp(last.ops, "HandleError") = 1
        /\ Queue.failures[last.key] = 0

\* C7: after the stop channel is closed the queue is shut down and Run returns
\* (the worker loop having ended), also when the worker waits in Get() on an
\* empty queue at that moment.
C7_StopEndsRun ==
    (stopCh = "closed") ~> (run = "returned" /\ Queue.shuttingDown)

\* nothing is left to do for the controller and the reconciler: the worker
\* waits in Get() on an empty queue, no retry timer is pending, and a sweep
\* that began after the last pod change has ended
Quiescent ==
    /\ run = "working" /\ synced /\ stopCh = "open"
    /\ proc[W].pc = "get" /\ Queue.queue = <<>> /\ Queue.waiting = {}
    /\ proc[R].pc = "idle" /\ sweep.swept /\ sweep.doneAt = podEvents

\* every Running pod has its check, passing when the pod is Ready and critical
\* when it is not
Converged ==
    \A n \in PodNames :
        (pods[n] # NoPod /\ pods[n].Phase = PodRunning) =>
            LET check == agentChecks[AgentAddr(pods[n].HostIP)]
                                    [getConsulHealthCheckID(pods[n])]
            IN  /\ check # NoCheck
                /\ \A i \in DOMAIN pods[n].Conditions :
                      pods[n].Conditions[i].Type = "Ready" =>
                         check.Status =
                            IF pods[n].Conditions[i].Status = ConditionTrue
                            THEN healthCheckPassing ELSE healthCheckCritical

\* the service of every Running pod is registered with its host's agent
ServicesVisible ==
    \A n \in PodNames :
        (pods[n] # NoPod /\ pods[n].Phase = PodRunning) =>
            getConsulServiceID(pods[n]) \in agentServices[AgentAddr(pods[n].HostIP)]

\* C8: once pod states have stopped changing, with the services registered
\* and no mesh-agent call or other step having failed, the system comes to
\* rest only in a state where every Running pod has exactly one check whose
\* status matches its readiness, for pods Running at start-up as for pods
\* that turn Running later.
C8_RestsOnlyWhenConverged ==
    (Quiescent /\ ServicesVisible /\ ~meshErr /\ faults = 0) => Converged

(***************************************************************************)
(* The event filter on its own: the informer delivers every notification   *)
(* a pod can give rise to, and the filter's calls of Queue.Add are         *)
(* recorded in lastEvent.                                                  *)
(***************************************************************************)
\* the notification that is pending is delivered: the filter's keys are recorded
Notified(keys) ==
    lastEvent' = [lastEvent EXCEPT !.added = keys, !.before = Queue, !.delivered = TRUE]

FilterFrame ==
    UNCHANGED <<agentDown, webhook, MaxRetries, pods, podEvents, agentServices, agentChecks, faults, Client,
                run, stopCh, synced, proc, wkey, sweep, reports, last, meshErr>>

NotifyUpdate ==
    /\ lastEvent.kind = "update" /\ ~lastEvent.delivered
    /\ UpdateFunc(lastEvent.old, lastEvent.new)
    /\ Notified(UpdateFuncKeys(lastEvent.old, lastEvent.new))
    /\ FilterFrame

NotifyAdd ==
    /\ lastEvent.kind = "add" /\ ~lastEvent.delivered
    /\ AddFunc(lastEvent.new)
    /\ Notified(AddFuncKeys(lastEvent.new))
    /\ FilterFrame

NotifyDelete ==
    /\ lastEvent.kind = "delete" /\ ~lastEvent.delivered
    /\ DeleteFunc(lastEvent.old)
    /\ Notified(DeleteFuncKeys(lastEvent.old))
    /\ FilterFrame

\* the notifications a pod can give rise to
Notifications ==
    UNION {
      {[NoEvent EXCEPT !.kind = "update", !.old = o, !.new = n] :
          o \in PodStates(name), n \in PodStates(name)}
        \cup {[NoEvent EXCEPT !.kind = "add", !.new = n] : n \in PodStates(name)}
        \cup {[NoEvent EXCEPT !.kind = "delete", !.old = o] : o \in PodStates(name)}
      : name \in PodNames}

\* queues the notification may find: empty, a key queued, a key being processed
\* with another queued behind it
FilterQueues ==
    {EmptyQueue,
     QueueAdd(EmptyQueue, "ADD/default/web"),
     QueueAdd([EmptyQueue EXCEPT !.processing = {"UPDATE/default/web"}], "UPDATE/prod/db")}

FilterInit ==
    /\ Queue \in FilterQueues
    /\ lastEvent \in Notifications
    /\ MaxRetries = 0
    /\ pods = [n \in PodNames |-> NoPod]
    /\ podEvents = 0
    /\ agentServices = [a \in Addrs |-> {}]
    /\ agentChecks = [a \in Addrs |-> [id \in CheckIDs |-> NoCheck]]
    /\ agentDown = {}
    /\ webhook = NoWebhook
    /\ faults = 0
    /\ Client = Nil
    /\ run = "working"
    /\ stopCh = "open"
    /\ synced = TRUE
    /\ proc = [p \in Procs |-> IdleProc]
    /\ wkey = Nil
    /\ sweep = NoSweep
    /\ reports = [s \in ReportSubjects |-> 0]
    /\ last = NoLast
    /\ meshErr = FALSE

FilterNext ==
    \/ NotifyUpdate
    \/ NotifyAdd
    \/ NotifyDelete

FilterSpec == FilterInit /\ [][FilterNext]_vars

\* readiness as the specification defines it: ready unless a Ready condition
\* says otherwise, the condition being ready only when its status is True
IsReady(pod) ==
    \A i \in DOMAIN pod.Conditions :
        pod.Conditions[i].Type = "Ready" => pod.Conditions[i].Status = ConditionTrue

PendingToRunning(e) ==
    /\ e.delivered /\ e.kind = "update"
    /\ e.old.Phase = PodPending /\ e.new.Phase = PodRunning

\* C1: an update notification from Pending to Running makes the filter call
\* Queue.Add exactly once, with "ADD/<namespace>/<name>", whatever the Ready
\* conditions are, and the key is then pending in the queue.
C1_PendingToRunningEnqueuesAdd ==
    PendingToRunning(lastEvent) =>
        /\ lastEvent.added =
             <<"ADD/" \o lastEvent.new.Namespace \o "/" \o lastEvent.new.Name>>
        /\ lastEvent.added[1] \in Queue.dirty

C1_Witness ==
    /\ PendingToRunning(lastEvent)
    /\ IsReady(lastEvent.old) /\ ~IsReady(lastEvent.new)
    /\ Len(lastEvent.added) = 1
    /\ lastEvent.added[1] = "ADD/default/web"

\* C2: an update notification that is no Pending-to-Running transition, whose
\* new pod is Running and whose readiness differs from the old pod's, makes
\* the filter call Queue.Add exactly once, with "UPDATE/<namespace>/<name>".
C2_ReadinessFlipEnqueuesUpdate ==
    ( /\ lastEvent.delivered /\ lastEvent.kind = "update"
      /\ ~PendingToRunning(lastEvent)
      /\ lastEvent.new.Phase = PodRunning
      /\ IsReady(lastEvent.old) # IsReady(lastEvent.new) ) =>
        /\ lastEvent.added =
             <<"UPDATE/" \o lastEvent.new.Namespace \o "/" \o lastEvent.new.Name>>
        /\ lastEvent.added[1] \in Queue.dirty

C2_Witness ==
    /\ lastEvent.delivered /\ lastEvent.kind = "update"
    /\ lastEvent.old.Phase = PodRunning /\ lastEvent.new.Phase = PodRunning
    /\ ~IsReady(lastEvent.old) /\ IsReady(lastEvent.new)
    /\ lastEvent.added = <<"UPDATE/prod/db">>

\* C3: an update notification that is no Pending-to-Running transition, whose
\* new pod is Running and equally ready as the old pod, enqueues nothing.
C3_SameReadinessEnqueuesNothing ==
    ( /\ lastEvent.delivered /\ lastEvent.kind = "update"
      /\ ~PendingToRunning(lastEvent)
      /\ lastEvent.new.Phase = PodRunning
      /\ IsReady(lastEvent.old) = IsReady(lastEvent.new) ) =>
        lastEvent.added = <<>> /\ Queue = lastEvent.before

\* C4: an update notification whose new pod is not Running, an add and a
\* delete notification enqueue nothing and leave the queue as it was.
C4_NotRunningAddDeleteEnqueueNothing ==
    ( /\ lastEvent.delivered
      /\ \/ lastEvent.kind = "update" /\ lastEvent.new.Phase # PodRunning
         \/ lastEvent.kind \in {"add", "delete"} ) =>
        lastEvent.added = <<>> /\ Queue = lastEvent.before

C4_Witness ==
    /\ lastEvent.delivered /\ lastEvent.kind = "add"
    /\ lastEvent.new.Phase = PodRunning
    /\ lastEvent.before.queue # <<>>
    /\ Queue = lastEvent.before


(***************************************************************************)
(* The handler on its own: one call of ObjectCreated (followed, as in      *)
(* processNextItem, by ObjectUpdated when it returns nil), of              *)
(* ObjectUpdated or of ObjectDeleted, on any pod, against an agent that    *)
(* may know the pod's service and check already, may learn the service     *)
(* meanwhile, or is down.                                                  *)
(***************************************************************************)
\* how many times in a row the handler's caller invokes ObjectUpdated on the pod
MaxCalls == 2

\* a Ready condition with status True that carries a message (the fields of
\* a PodCondition are independent of each other)
ReadyCondWithMessage ==
    [Type |-> "Ready", Status |-> ConditionTrue, Reason |-> "",
     Message |-> "all containers ready"]

\* the condition lists the handler is tried on
HandlerCondLists == CondLists \cup {<<ReadyCondWithMessage>>}

HandlerPods ==
    {MkPod(n, ph, cl, 1) : n \in PodNames, ph \in Phases, cl \in HandlerCondLists}

\* a check the agent holds before the call
HeldCheck(pod, status) ==
    [Name |-> getConsulHealthCheckID(pod), ServiceID |-> getConsulServiceID(pod),
     Status |-> status, Notes |-> "Kubernetes Health Check ", Output |-> ""]

HandlerInit ==
    \E pod \in HandlerPods, pc \in {"oc_bind", "ou_bind", "od_bind"},
       held \in {"", healthCheckPassing, healthCheckCritical},
       svcs \in SUBSET ServiceIDs, down \in BOOLEAN :
        LET addr == AgentAddr(pod.HostIP)
        IN  /\ proc = [p \in Procs |->
                         IF p = W THEN [IdleProc EXCEPT !.pc = pc, !.item = pod]
                         ELSE IdleProc]
            /\ pods = [n \in PodNames |-> IF n = pod.Name THEN pod ELSE NoPod]
            /\ held # "" => getConsulServiceID(pod) \in svcs
            /\ agentServices = [a \in Addrs |-> IF a = addr THEN svcs ELSE {}]
            /\ agentChecks = [a \in Addrs |-> [id \in CheckIDs |->
                                 IF a = addr /\ id = getConsulHealthCheckID(pod)
                                              /\ held # ""
                                 THEN HeldCheck(pod, held) ELSE NoCheck]]
            /\ agentDown = IF down THEN {addr} ELSE {}
            /\ webhook = NoWebhook
            /\ Queue = EmptyQueue
            /\ lastEvent = NoEvent
            /\ MaxRetries = 0
            /\ podEvents = 0
            /\ faults = 0
            /\ Client = Nil
            /\ run = "working"
            /\ stopCh = "open"
            /\ synced = TRUE
            /\ wkey = Nil
            /\ sweep = NoSweep
            /\ reports = [x \in ReportSubjects |-> 0]
            /\ last = NoLast
            /\ meshErr = FALSE

\* the pod's service is registered with its host's agent while the handler runs
ServiceAppears == \E n \in PodNames : ServiceUp(n)

\* ObjectUpdated has returned and its caller invokes it again on the same pod
ObjectUpdatedAgain ==
    /\ proc[W].pc = "finish"
    /\ Len(proc[W].returned) < MaxCalls
    /\ proc[W].returned[Len(proc[W].returned)].op = "ObjectUpdated"
    /\ proc' = [proc EXCEPT ![W].pc = "ou_bind", ![W].err = Nil]
    /\ UNCHANGED <<agentDown, webhook, Queue, lastEvent, MaxRetries, pods, podEvents, agentServices,
                   agentChecks, faults, Client, run, stopCh, synced, wkey, sweep,
                   reports, last, meshErr>>

HandlerNext ==
    \/ updateConsulClient(W)
    \/ PollServices(W)
    \/ CheckRegister(W)
    \/ ObjectUpdatedStatus
    \/ ObjectUpdatedAgain
    \/ ObjectDeletedDeregister
    \/ ServiceAppears

HandlerSpec == HandlerInit /\ [][HandlerNext]_vars

\* the calls of one kind the worker's handler has made for its pod
CallsOf(op) == SelectSeq(proc[W].calls, LAMBDA c : c.op = op)

\* ObjectCreated was called on the worker's pod and has returned
ObjectCreatedReturned ==
    /\ proc[W].returned # <<>>
    /\ proc[W].returned[1].op = "ObjectCreated"

\* ... and this is the state it returned in
ObjectCreatedJustReturned ==
    /\ ObjectCreatedReturned
    /\ Len(proc[W].returned) = 1
    /\ proc[W].pc \in {"ou_bind", "finish"}

\* the check id and the service id as the specification spells them
SpecServiceID(pod) == pod.Name \o "-" \o pod.Annotation

SpecCheckID(pod) == SpecServiceID(pod) \o "-kubernetes-health-check-ttl"

\* the agent of the pod's host holds the pod's check, passing, with no reason
HoldsFreshCheck(pod) ==
    LET check == agentChecks["http://" \o pod.HostIP \o ":8500"][SpecCheckID(pod)]
    IN  /\ check # NoCheck
        /\ check.Name = SpecCheckID(pod)
        /\ check.ServiceID = SpecServiceID(pod)
        /\ check.Status = "passing"
        /\ check.Notes = "Kubernetes Health Check "
        /\ check.Output = ""

\* C9: ObjectCreated, when the client binding succeeds and the service is
\* visible on the agent (the first service-list poll finds it), issues exactly
\* one check registration, to the agent of the pod's host, with id
\* <podName>-<serviceAnnotation>-kubernetes-health-check-ttl, status passing
\* and an empty reason, and when the agent accepts it the agent holds that
\* check; an error from the binding or from the registration is what
\* ObjectCreated returns, and on a binding error no registration is issued.
C9_ObjectCreatedRegistersPassingCheck ==
    ObjectCreatedReturned =>
        LET pod == proc[W].item
            ret == proc[W].returned[1]
            bind == CallsOf("APIClient")[1]
            polls == CallsOf("Services")
            regs == CallsOf("CheckRegister")
        IN  /\ bind.err # Nil => (ret.err = bind.err /\ regs = <<>> /\ polls = <<>>)
            /\ Len(regs) <= 1
            /\ Len(regs) = 1 => ret.err = regs[1].err
            /\ (bind.err = Nil /\ Len(polls) = 1 /\ polls[1].err = Nil) =>
                  /\ Len(regs) = 1
                  /\ regs[1].addr = "http://" \o pod.HostIP \o ":8500"
                  /\ regs[1].id = SpecCheckID(pod)
                  /\ regs[1].svc = SpecServiceID(pod)
                  /\ regs[1].status = "passing"
                  /\ regs[1].reason = ""
                  /\ (regs[1].err = Nil /\ ObjectCreatedJustReturned) => HoldsFreshCheck(pod)

\* C9's case: the binding succeeded, the first poll found the service,
\* ObjectCreated has just returned nil and the agent holds the new check,
\* where it held none or a critical one before
C9_Witness ==
    /\ ObjectCreatedJustReturned
    /\ proc[W].returned[1].err = Nil
    /\ Len(CallsOf("Services")) = 1
    /\ Len(CallsOf("CheckRegister")) = 1
    /\ HoldsFreshCheck(proc[W].item)

\* every poll of the retry budget was answered, and none listed the service
ServiceNeverVisible ==
    LET polls == CallsOf("Services")
    IN  /\ Len(polls) = PollRetryLimit + 1
        /\ \A i \in DOMAIN polls : polls[i].err = "did not find serviceID"

\* the first poll did not list the service, a later poll of the budget did
ServiceVisibleLater ==
    LET polls == CallsOf("Services")
    IN  /\ Len(polls) > 1
        /\ polls[1].err = "did not find serviceID"
        /\ polls[Len(polls)].err = Nil

\* C10: when the service is not visible at the first service-list poll but
\* becomes visible within the retry budget, ObjectCreated succeeds and the
\* check is registered (the registration call itself not failing); when the
\* service is not visible at any poll of the budget, ObjectCreated returns
\* the "did not find serviceID" error and issues no check registration call.
C10_RegistrationRaceTolerance ==
    ObjectCreatedReturned =>
        LET pod == proc[W].item
            ret == proc[W].returned[1]
            regs == CallsOf("CheckRegister")
        IN  /\ (ServiceVisibleLater /\ Len(regs) = 1 /\ regs[1].err # "agent error") =>
                  /\ ret.err = Nil
                  /\ ObjectCreatedJustReturned => HoldsFreshCheck(pod)
            /\ ServiceVisibleLater => Len(regs) = 1
            /\ ServiceNeverVisible =>
                  /\ ret.err = "did not find serviceID"
                  /\ regs = <<>>

\* the calls of one kind that ObjectUpdated has made for the worker's pod
UpdatedCallsOf(ops) ==
    SelectSeq(proc[W].calls, LAMBDA c : c.by = "ObjectUpdated" /\ c.op \in ops)

\* the client bindings of ObjectUpdated that succeeded
UpdatedBindings ==
    SelectSeq(proc[W].calls,
              LAMBDA c : c.by = "ObjectUpdated" /\ c.op = "APIClient" /\ c.err = Nil)

\* no invocation of the handler is under way for the worker's pod
HandlerAtRest == proc[W].pc = "finish"

\* C11: every invocation of ObjectUpdated whose client binding succeeds
\* issues exactly one status-setting call (FailTTL or PassTTL), whatever the
\* pod's conditions: once the invocations have returned, there are as many
\* status-setting calls as successful bindings.
C11_OneStatusCallPerUpdate ==
    HandlerAtRest =>
        Len(UpdatedCallsOf({"FailTTL", "PassTTL"})) = Len(UpdatedBindings)

\* the pod's Ready conditions, in the order of its condition list
ReadyConditions(pod) == SelectSeq(pod.Conditions, LAMBDA y : y.Type = "Ready")

\* C12: ObjectUpdated sets the check to failing with the Ready condition's
\* message as reason when the pod is not ready, and to passing with an empty
\* reason when the pod is ready: each of its status-setting calls is the one
\* that matches the pod's Ready condition, and a call the agent accepted
\* leaves the check with that status and reason.
C12_UpdateSetsStatusAndReason ==
    LET pod == proc[W].item
        sets == UpdatedCallsOf({"FailTTL", "PassTTL"})
    IN  \A i \in DOMAIN sets :
            LET ready == ReadyConditions(pod)[1]
                wanted == IF ready.Status = "True"
                          THEN [op |-> "PassTTL", status |-> "passing", reason |-> ""]
                          ELSE [op |-> "FailTTL", status |-> "critical",
                                reason |-> ready.Message]
            IN  /\ sets[i].op = wanted.op
                /\ sets[i].id = SpecCheckID(pod)
                /\ sets[i].reason = wanted.reason
                /\ (sets[i].err = Nil /\ HandlerAtRest /\ i = Len(sets)) =>
                      LET check == proc[W].returned[Len(proc[W].returned)].check
                      IN  check.Status = wanted.status /\ check.Output = wanted.reason

\* the k-th and the next handler operation for the worker's pod were both
\* ObjectUpdated and both returned nil
TwoUpdatesInARow(k) ==
    /\ k + 1 \in DOMAIN proc[W].returned
    /\ proc[W].returned[k].op = "ObjectUpdated"
    /\ proc[W].returned[k + 1].op = "ObjectUpdated"
    /\ proc[W].returned[k].err = Nil
    /\ proc[W].returned[k + 1].err = Nil

\* C13: ObjectUpdated is idempotent: invoked twice in a row with the same pod
\* state (both invocations answered without error), it leaves the check with
\* the same status and reason after the second call as after the first.
C13_UpdateIsIdempotent ==
    \A k \in DOMAIN proc[W].returned :
        TwoUpdatesInARow(k) =>
            /\ proc[W].returned[k + 1].check.Name = proc[W].returned[k].check.Name
            /\ proc[W].returned[k].check # NoCheck =>
                  /\ proc[W].returned[k + 1].check.Status = proc[W].returned[k].check.Status
                  /\ proc[W].returned[k + 1].check.Output = proc[W].returned[k].check.Output

\* C13's case: two invocations in a row, each with its status call accepted,
\* on a pod that is not ready, the check critical with the message as reason
C13_Witness ==
    /\ TwoUpdatesInARow(1)
    /\ Len(UpdatedCallsOf({"FailTTL"})) = 2
    /\ proc[W].returned[2].check # NoCheck
    /\ proc[W].returned[2].check.Status = "critical"
    /\ proc[W].returned[2].check.Output = "containers with unready status"

\* ObjectDeleted was called on the worker's pod and has returned
ObjectDeletedReturned ==
    /\ proc[W].returned # <<>>
    /\ proc[W].returned[1].op = "ObjectDeleted"

\* C14: ObjectDeleted, its client bound, issues one deregistration for the
\* pod's check id; when the agent deregisters the check or answers that it
\* does not know it, ObjectDeleted returns no error and the check is absent
\* afterwards.
C14_DeleteToleratesAbsentCheck ==
    (ObjectDeletedReturned /\ CallsOf("APIClient")[1].err = Nil) =>
        LET pod == proc[W].item
            ret == proc[W].returned[1]
            deregs == CallsOf("CheckDeregister")
        IN  /\ Len(deregs) = 1
            /\ deregs[1].id = SpecCheckID(pod)
            /\ deregs[1].addr = "http://" \o pod.HostIP \o ":8500"
            /\ deregs[1].err \in {Nil, "unknown check"} =>
                  /\ ret.err = Nil
                  /\ ret.check = NoCheck
                  /\ agentChecks[deregs[1].addr][SpecCheckID(pod)] = NoCheck

\* C14's case: the agent answered that the check is not known, and
\* ObjectDeleted returned nil
C14_Witness ==
    /\ ObjectDeletedReturned
    /\ Len(CallsOf("CheckDeregister")) = 1
    /\ CallsOf("CheckDeregister")[1].err = "unknown check"
    /\ proc[W].returned[1].err = Nil

(***************************************************************************)
(* Reconcile on its own: one sweep over a listing of up to two pods, each  *)
(* Pending or Running with any readiness, against agents that hold the     *)
(* pod's check (passing or critical), hold no check of its name, or hold   *)
(* only somebody else's check of that name; an agent may be down.          *)
(***************************************************************************)
ReconcileCondLists ==
    {<<>>, <<ReadyCond(ConditionTrue)>>, <<ReadyCond(ConditionFalse)>>,
     <<ReadyCond(ConditionUnknown)>>, <<OtherCond, ReadyCond(ConditionFalse)>>}

ReconcilePods(n) ==
    {NoPod} \cup {MkPod(n, ph, cl, 1) : ph \in {PodPending, PodRunning},
                                        cl \in ReconcileCondLists}

\* what the agent of pod n's host holds for the pod before the sweep
HeldStates == {"nothing", "service", healthCheckPassing, healthCheckCritical,
               "foreign", "foreign and service"}

\* somebody else's check that carries the Name of the pod's health check
ForeignCheck(pod) ==
    [Name |-> getConsulHealthCheckID(pod), ServiceID |-> "", Status |-> healthCheckPassing,
     Notes |-> "", Output |-> ""]

ReconcileInit ==
    \E ps \in [PodNames -> UNION {ReconcilePods(n) : n \in PodNames}],
       held \in [PodNames -> HeldStates], down \in SUBSET {AgentAddr(HostIPOf("web"))} :
        /\ \A n \in PodNames : ps[n] \in ReconcilePods(n)
        /\ \A n \in PodNames : ps[n] = NoPod => held[n] = "nothing"
        /\ pods = ps
        /\ agentServices =
              [a \in Addrs |->
                 {getConsulServiceID(ps[n]) : n \in
                    {m \in PodNames : /\ AgentAddr(HostIPOf(m)) = a
                                      /\ held[m] \notin {"nothing", "foreign"}}}]
        /\ agentChecks =
              [a \in Addrs |-> [id \in CheckIDs |->
                 LET own == {n \in PodNames :
                               /\ AgentAddr(HostIPOf(n)) = a
                               /\ held[n] \in {healthCheckPassing, healthCheckCritical}
                               /\ id = getConsulHealthCheckID(ps[n])}
                     foreign == {n \in PodNames :
                                   /\ AgentAddr(HostIPOf(n)) = a
                                   /\ held[n] \in {"foreign", "foreign and service"}
                                   /\ id = ForeignCheckID(n)}
                 IN  IF own # {}
                     THEN LET n == CHOOSE n \in own : TRUE IN HeldCheck(ps[n], held[n])
                     ELSE IF foreign # {}
                     THEN LET n == CHOOSE n \in foreign : TRUE IN ForeignCheck(ps[n])
                     ELSE NoCheck]]
        /\ agentDown = down
        /\ webhook = NoWebhook
        /\ proc = [p \in Procs |-> IdleProc]
        /\ Queue = EmptyQueue
        /\ lastEvent = NoEvent
        /\ MaxRetries = 0
        /\ podEvents = 0
        /\ faults = 0
        /\ Client = Nil
        /\ run = "working"
        /\ stopCh = "open"
        /\ synced = TRUE
        /\ wkey = Nil
        /\ sweep = NoSweep
        /\ reports = [x \in ReportSubjects |-> 0]
        /\ last = NoLast
        /\ meshErr = FALSE

\* the service of the pod Reconcile is polling for is registered meanwhile
ServiceAppearsWhilePolling ==
    \E n \in PodNames :
        /\ proc[R].pc = "poll"
        /\ proc[R].item.Name = n
        /\ ServiceUp(n)

ReconcileSpecNext ==
    \/ ReconcilerNext
    \/ ServiceAppearsWhilePolling

ReconcileSpec == ReconcileInit /\ [][ReconcileSpecNext]_vars

\* the calls of some kinds Reconcile has made for the pod it is at
ReconcileCallsOf(ops) == SelectSeq(proc[R].calls, LAMBDA c : c.op \in ops)

\* Reconcile's loop body has ended for a pod and the loop head is next
PodLeft == proc[R].pc = "rc_next" /\ proc[R].item # NoPod

\* ... and on the way the agent answered the query for the pod's checks
PodLeftAfterQuery ==
    /\ PodLeft
    /\ ReconcileCallsOf({"ChecksWithFilter"}) # <<>>
    /\ ReconcileCallsOf({"ChecksWithFilter"})[1].err = Nil

\* the stored status the query found for the pod's check id, or that it
\* found none
QueriedStatus == ReconcileCallsOf({"ChecksWithFilter"})[1].status

\* C15: for a Running pod whose expected check id is not present on the
\* agent, Reconcile registers exactly one check, with status passing and an
\* empty reason when the pod is Ready, and status critical with the Ready
\* condition's reason when the pod is not ready.
C15_ReconcileRegistersAbsentCheck ==
    (PodLeftAfterQuery /\ QueriedStatus \in {"no checks", "other checks"}
       /\ ReadyConditions(proc[R].item) # <<>>) =>
        LET pod == proc[R].item
            ready == ReadyConditions(pod)[1]
            regs == ReconcileCallsOf({"CheckRegister"})
        IN  /\ Len(regs) = 1
            /\ regs[1].id = SpecCheckID(pod)
            /\ regs[1].svc = SpecServiceID(pod)
            /\ regs[1].status = IF ready.Status = "True" THEN "passing" ELSE "critical"
            /\ regs[1].reason = IF ready.Status = "True" THEN "" ELSE ready.Reason

\* C16: for a Running pod whose check exists, Reconcile issues exactly one
\* status call and no registration when the stored status disagrees with the
\* pod's readiness (critical but Ready: one pass call; passing but not ready:
\* one fail call), and no mutating call at all when they agree.
C16_ReconcileUpdatesPresentCheck ==
    (PodLeftAfterQuery /\ QueriedStatus \in {"passing", "critical"}
       /\ ReadyConditions(proc[R].item) # <<>>) =>
        LET pod == proc[R].item
            isReady == ReadyConditions(pod)[1].Status = "True"
            sets == ReconcileCallsOf({"PassTTL", "FailTTL"})
        IN  /\ ReconcileCallsOf({"CheckRegister"}) = <<>>
            /\ (QueriedStatus = "critical" /\ isReady) =>
                  Len(sets) = 1 /\ sets[1].op = "PassTTL" /\ sets[1].id = SpecCheckID(pod)
            /\ (QueriedStatus = "passing" /\ ~isReady) =>
                  Len(sets) = 1 /\ sets[1].op = "FailTTL" /\ sets[1].id = SpecCheckID(pod)
            /\ (QueriedStatus = "passing" <=> isReady) => sets = <<>>

\* the outcomes of the sweep so far, the pod the loop has just left included
SweepOutcomes ==
    IF proc[R].item # NoPod /\ proc[R].pc = "rc_next"
    THEN Append(sweep.log, PodOutcome(proc[R])) ELSE sweep.log

\* the loop is past the last pod of the listing
SweepAtEnd == proc[R].pc = "rc_next" /\ sweep.idx > Len(sweep.podList)

\* the Running pods of the listing, in its order
RunningListed == SelectSeq(sweep.podList, LAMBDA p : p.Phase = "Running")

\* C17: in a Reconcile sweep a failure for one pod does not keep any later
\* pod of the listing from being reconciled (at the end of the sweep every
\* Running pod of the listing has had its calls, sent to the agent of its
\* host, in the listing's order), pods that are not Running cause no mesh
\* call, and Reconcile returns an error only when the listing itself fails.
C17_SweepContinuesPastFailures ==
    /\ \A i \in DOMAIN SweepOutcomes : SweepOutcomes[i].phase = "Running"
    /\ SweepAtEnd =>
          /\ Len(SweepOutcomes) = Len(RunningListed)
          /\ \A i \in DOMAIN SweepOutcomes :
                /\ SweepOutcomes[i].pod = RunningListed[i].Name
                /\ SweepOutcomes[i].calls # <<>>
                /\ \A j \in DOMAIN SweepOutcomes[i].calls :
                      SweepOutcomes[i].calls[j].addr =
                         "http://" \o RunningListed[i].HostIP \o ":8500"
    /\ sweep.swept => sweep.err = Nil
    /\ sweep.err # Nil => (~sweep.swept /\ proc[R].pc = "idle" /\ sweep.log = <<>>)

\* C17's case: the sweep is past its last pod; the first pod's agent query
\* failed, and the second pod, listed after it, had its check set
C17_Witness ==
    /\ SweepAtEnd
    /\ Len(SweepOutcomes) = 2
    /\ SweepOutcomes[1].err # Nil
    /\ \E j \in DOMAIN SweepOutcomes[2].calls :
          /\ SweepOutcomes[2].calls[j].op \in {"PassTTL", "FailTTL"}
          /\ SweepOutcomes[2].calls[j].err = Nil

(***************************************************************************)
(* The config-entry admission webhook (package common, of which src/       *)
(* holds the test only): ValidateConfigEntry answers an admission request  *)
(* for a ServiceDefaults or a ServiceResolver given the resources of that  *)
(* kind the cluster holds.                                                 *)
(***************************************************************************)
ConfigKinds == {"ServiceDefaults", "ServiceResolver"}
ConfigNames == {"foo", "bar"}
KubeNamespaces == {"default", "other"}

ConfigEntryResources == [kind : ConfigKinds, name : ConfigNames, namespace : KubeNamespaces]

AdmissionOperations == {"CREATE", "UPDATE"}

AdmissionRequests == [operation : AdmissionOperations, object : ConfigEntryResources]

\* the message of the denial, as the test formats it (its dash written "-")
AlreadyDefined(kind, name) ==
    kind \o " resource with name \"" \o name \o "\" is already defined - all "
         \o kind \o " resources must have unique names across namespaces"

\* a validator that looks for the name in the request's own namespace only
ValidateConfigEntry_SameNamespace(existing, req) ==
    IF /\ req.operation = "CREATE"
       /\ \E item \in existing : /\ item.kind = req.object.kind
                                  /\ item.name = req.object.name
                                  /\ item.namespace = req.object.namespace
    THEN [allowed |-> FALSE,
          message |-> AlreadyDefined(req.object.kind, req.object.name)]
    ELSE [allowed |-> TRUE, message |-> "valid " \o req.object.kind \o " request"]

\* ValidateConfigEntry: on create, the resources of the request's kind are
\* listed over all namespaces and the request is denied when one of them has
\* the name of the new resource
ValidateConfigEntry(existing, req) ==
    IF /\ req.operation = "CREATE"
       /\ \E item \in existing : /\ item.kind = req.object.kind
                                  /\ item.name = req.object.name
    THEN [allowed |-> FALSE,
          message |-> AlreadyDefined(req.object.kind, req.object.name)]
    ELSE [allowed |-> TRUE, message |-> "valid " \o req.object.kind \o " request"]

\* validator.Handle(ctx, request)
Handle ==
    /\ webhook.request.operation # Nil
    /\ ~webhook.answered
    /\ webhook' = [webhook EXCEPT
                     !.answered = TRUE,
                     !.response = ValidateConfigEntry(webhook.existing, webhook.request)]
    /\ UNCHANGED <<agentDown, Queue, lastEvent, MaxRetries, pods, podEvents, agentServices,
                   agentChecks, faults, Client, run, stopCh, synced, proc, wkey, sweep,
                   reports, last, meshErr>>

ValidatorInit ==
    /\ webhook \in [existing : SUBSET ConfigEntryResources, request : AdmissionRequests,
                     answered : {FALSE}, response : {NoResponse}]
    /\ Queue = EmptyQueue
    /\ lastEvent = NoEvent
    /\ MaxRetries = 0
    /\ pods = [n \in PodNames |-> NoPod]
    /\ podEvents = 0
    /\ agentServices = [a \in Addrs |-> {}]
    /\ agentChecks = [a \in Addrs |-> [id \in CheckIDs |-> NoCheck]]
    /\ agentDown = {}
    /\ faults = 0
    /\ Client = Nil
    /\ run = "init"
    /\ stopCh = "open"
    /\ synced = FALSE
    /\ proc = [p \in Procs |-> IdleProc]
    /\ wkey = Nil
    /\ sweep = NoSweep
    /\ reports = [x \in ReportSubjects |-> 0]
    /\ last = NoLast
    /\ meshErr = FALSE

ValidatorSpec == ValidatorInit /\ [][Handle]_vars

\* the request creates a resource whose name a resource of the same kind in
\* another Kubernetes namespace has already
NameTakenElsewhere ==
    /\ webhook.request.operation = "CREATE"
    /\ \E r \in webhook.existing :
          /\ r.kind = webhook.request.object.kind
          /\ r.name = webhook.request.object.name
          /\ r.namespace # webhook.request.object.namespace

C19_DoneOncePerGet ==
    last.key # Nil => CountOp(last.ops, "Done") = 1

\* the key is the ADD key, or the UPDATE key, of one of the pods
IsAddKey(key) == \E n \in PodNames : key = "ADD/" \o NamespaceOf(n) \o "/" \o n

IsUpdateKey(key) == \E n \in PodNames : key = "UPDATE/" \o NamespaceOf(n) \o "/" \o n

\* the handler operations the last processNextItem called, in order
HandledOps == [i \in DOMAIN last.handled |-> last.handled[i].op]

\* C20: for a dequeued ADD key whose pod is in the cache the worker calls
\* ObjectCreated on the cached pod and then, only if that returned nil,
\* ObjectUpdated exactly once on the same pod, after which (both having
\* succeeded) the check's status is the one the pod's readiness calls for;
\* for an UPDATE key it calls ObjectUpdated alone, once; for a key whose pod
\* is not in the cache it calls no handler operation.
C20_DispatchByActionKind ==
    last.key # Nil =>
        /\ ~last.exists => last.handled = <<>>
        /\ last.exists =>
              /\ last.item # NoPod
              /\ last.key \in {"ADD/" \o last.item.Namespace \o "/" \o last.item.Name,
                                "UPDATE/" \o last.item.Namespace \o "/" \o last.item.Name}
        /\ (last.exists /\ IsUpdateKey(last.key)) => HandledOps = <<"ObjectUpdated">>
        /\ (last.exists /\ IsAddKey(last.key)) =>
              \/ HandledOps = <<"ObjectCreated">> /\ last.handled[1].err # Nil
              \/ /\ HandledOps = <<"ObjectCreated", "ObjectUpdated">>
                 /\ last.handled[1].err = Nil
                 /\ last.handled[2].err = Nil =>
                       LET ready == ReadyConditions(last.item)
                       IN  /\ last.handled[2].check # NoCheck
                           /\ last.handled[2].check.Status =
                                 IF ready = <<>> \/ ready[1].Status = "True"
                                 THEN "passing" ELSE "critical"

\* C20's case: an ADD key was processed for a pod that is in the cache and not
\* ready; ObjectCreated and then ObjectUpdated returned nil and the check is
\* critical
C20_Witness ==
    /\ last.exists
    /\ IsAddKey(last.key)
    /\ HandledOps = <<"ObjectCreated", "ObjectUpdated">>
    /\ last.handled[2].err = Nil
    /\ last.handled[2].check # NoCheck
    /\ last.handled[2].check.Status = "critical"

\* the worker loop has been started: it is in Get(), holds a key, or is in a
\* handler operation
WorkerStarted == proc[W].pc # "idle"

\* C21: no key is dequeued and no handler operation is invoked by the worker
\* loop before the cache has reported synced; when the initial
\* synchronization does not complete (the stop channel is closed first), Run
\* reports an error and returns without ever starting the worker loop.
C21_NoWorkBeforeCacheSync ==
    /\ WorkerStarted => synced
    /\ (wkey # Nil \/ last.key # Nil) => synced
    /\ (run = "returned" /\ ~synced) => (reports["sync"] = 1 /\ ~WorkerStarted)
    /\ reports["sync"] > 0 =>
          (run = "returned" /\ ~WorkerStarted /\ wkey = Nil /\ reports["sync"] = 1)

\* C21's case: the stop channel was closed before the cache had synced, and
\* Run has reported the error and returned, the worker never started
C21_Witness ==
    /\ run = "returned"
    /\ ~synced
    /\ stopCh = "closed"
    /\ reports["sync"] = 1
    /\ ~WorkerStarted

\* the handler's steps are taken as long as one is possible: backoff.Retry
\* calls its function again after each interval
FairHandlerSpec ==
    /\ HandlerSpec
    /\ WF_vars(updateConsulClient(W))
    /\ WF_vars(PollServices(W))
    /\ WF_vars(CheckRegister(W))
    /\ WF_vars(ObjectUpdatedStatus)
    /\ WF_vars(ObjectDeletedDeregister)

\* registerConsulHealthCheck is polling the agent's service list
Polling == proc[W].pc = "poll"

\* C22: the service-visibility polling inside check registration always
\* terminates: it queries the agent's service list at most 11 times and then
\* gives up, when the service is never listed as when every service-list
\* query returns an error.
C22_PollingTerminates ==
    /\ [](Len(CallsOf("Services")) <= 11)
    /\ [](Polling => <>(~Polling))

\* C22's case: every one of the 11 queries was answered with an error, and
\* the polling is over
C22_Witness ==
    /\ ~Polling
    /\ Len(CallsOf("Services")) = 11
    /\ \A i \in 1..11 : CallsOf("Services")[i].err = "agent error"

(***************************************************************************)
(* Reconcile next to the worker: two Running pods on two hosts, each       *)
(* host's agent holding the pod's service and perhaps its check; the       *)
(* worker is in ObjectCreated, ObjectUpdated or ObjectDeleted for one pod   *)
(* while a sweep goes over both.  Nothing fails: every step that goes      *)
(* wrong here goes wrong through the handler's Client field alone.         *)
(***************************************************************************)
ConcurrentPods(n) == {MkPod(n, PodRunning, <<ReadyCond(s)>>, 1) :
                        s \in {ConditionTrue, ConditionFalse}}

ConcurrentInit ==
    \E ps \in [PodNames -> UNION {ConcurrentPods(n) : n \in PodNames}],
       held \in [PodNames -> {"", healthCheckPassing, healthCheckCritical}],
       mine \in PodNames, pc \in {"oc_bind", "ou_bind", "od_bind"} :
        /\ \A n \in PodNames : ps[n] \in ConcurrentPods(n)
        /\ pods = ps
        /\ proc = [p \in Procs |->
                     IF p = W THEN [IdleProc EXCEPT !.pc = pc, !.item = ps[mine]]
                     ELSE IdleProc]
        /\ agentServices =
              [a \in Addrs |-> {getConsulServiceID(ps[n]) :
                                  n \in {m \in PodNames : AgentAddr(HostIPOf(m)) = a}}]
        /\ agentChecks =
              [a \in Addrs |-> [id \in CheckIDs |->
                 LET own == {n \in PodNames : /\ AgentAddr(HostIPOf(n)) = a
                                              /\ held[n] # ""
                                              /\ id = getConsulHealthCheckID(ps[n])}
                 IN  IF own # {}
                     THEN LET n == CHOOSE n \in own : TRUE IN HeldCheck(ps[n], held[n])
                     ELSE NoCheck]]
        /\ agentDown = {}
        /\ webhook = NoWebhook
        /\ Queue = EmptyQueue
        /\ lastEvent = NoEvent
        /\ MaxRetries = 0
        /\ podEvents = 0
        /\ faults = MaxFaults
        /\ Client = Nil
        /\ run = "working"
        /\ stopCh = "open"
        /\ synced = TRUE
        /\ wkey = Nil
        /\ sweep = NoSweep
        /\ reports = [x \in ReportSubjects |-> 0]
        /\ last = NoLast
        /\ meshErr = FALSE

ConcurrentNext ==
    \/ ConcurrentReconcileList
    \/ ReconcileNext
    \/ ReconcileChecks
    \/ ReconcileStatus
    \/ \E self \in Procs : updateConsulClient(self)
    \/ \E self \in Procs : PollServices(self)
    \/ \E self \in Procs : CheckRegister(self)
    \/ ObjectUpdatedStatus
    \/ ObjectDeletedDeregister

ConcurrentSpec == ConcurrentInit /\ [][ConcurrentNext]_vars

\* the agent calls a process has made for the pod it is at all went to the
\* agent of that pod's host
ThroughOwnClient(self) ==
    \A i \in 1..Len(proc[self].calls) :
        proc[self].calls[i].addr = AgentAddr(proc[self].item.HostIP)

\* a process has called t.Client.Agent() with t.Client nil
NilClientCall(self) == proc[self].pc = "panic"

\* C23: the mesh client binding is not shared across concurrent operations:
\* with a Reconcile sweep running next to the worker's ObjectCreated,
\* ObjectUpdated or ObjectDeleted on the same handler, every mesh-agent call
\* made on behalf of a pod goes through a client bound to that pod's host
\* address, never through a client bound for another pod and never through a
\* nil client.
C23_ClientBindingNotShared ==
    \A self \in Procs : ThroughOwnClient(self) /\ ~NilClientCall(self)

(***************************************************************************)
(* ObjectUpdated and Reconcile one after the other, in either order, on    *)
(* Running pods whose Ready condition is True, False or Unknown and whose  *)
(* checks exist, passing or critical.  No call fails.                      *)
(***************************************************************************)
AgreementPods(n) ==
    {MkPod(n, PodRunning, cl, 1) :
       cl \in UNION {{<<ReadyCond(s)>>, <<OtherCond, ReadyCond(s)>>} :
                       s \in {ConditionTrue, ConditionFalse, ConditionUnknown}}}

AgreementInit ==
    \E ps \in [PodNames -> UNION {AgreementPods(n) : n \in PodNames}],
       held \in [PodNames -> {healthCheckPassing, healthCheckCritical}],
       mine \in PodNames, updateFirst \in BOOLEAN :
        /\ \A n \in PodNames : ps[n] \in AgreementPods(n)
        /\ pods = ps
        /\ proc = [p \in Procs |->
                     IF p = W /\ updateFirst
                     THEN [IdleProc EXCEPT !.pc = "ou_bind", !.item = ps[mine]]
                     ELSE IdleProc]
        /\ agentServices =
              [a \in Addrs |-> {getConsulServiceID(ps[n]) :
                                  n \in {m \in PodNames : AgentAddr(HostIPOf(m)) = a}}]
        /\ agentChecks =
              [a \in Addrs |-> [id \in CheckIDs |->
                 LET own == {n \in PodNames : /\ AgentAddr(HostIPOf(n)) = a
                                              /\ id = getConsulHealthCheckID(ps[n])}
                 IN  IF own # {}
                     THEN LET n == CHOOSE n \in own : TRUE IN HeldCheck(ps[n], held[n])
                     ELSE NoCheck]]
        /\ agentDown = {}
        /\ webhook = NoWebhook
        /\ Queue = EmptyQueue
        /\ lastEvent = NoEvent
        /\ MaxRetries = 0
        /\ podEvents = 0
        /\ faults = MaxFaults
        /\ Client = Nil
        /\ run = "working"
        /\ stopCh = "open"
        /\ synced = TRUE
        /\ wkey = Nil
        /\ sweep = NoSweep
        /\ reports = [x \in ReportSubjects |-> 0]
        /\ last = NoLast
        /\ meshErr = FALSE

\* Reconcile is called when no ObjectUpdated is under way: before any, or
\* right after one has returned
ReconcileInTurn ==
    /\ proc[W].pc \in {"idle", "finish"}
    /\ ListPods(FALSE)

\* ObjectUpdated is called on a listed pod right after a sweep has ended
ObjectUpdatedAfterReconcile ==
    /\ proc[W].pc = "idle"
    /\ proc[R].pc = "idle"
    /\ sweep.swept
    /\ \E n \in PodNames :
         proc' = [proc EXCEPT ![W] = [IdleProc EXCEPT !.pc = "ou_bind", !.item = pods[n]]]
    /\ UNCHANGED <<agentDown, webhook, Queue, lastEvent, MaxRetries, pods, podEvents, agentServices,
                   agentChecks, faults, Client, run, stopCh, synced, wkey, sweep, reports,
                   last, meshErr>>

AgreementNext ==
    \/ ReconcileInTurn
    \/ ReconcileNext
    \/ updateConsulClient(R)
    \/ ReconcileChecks
    \/ ReconcileStatus
    \/ ObjectUpdatedAfterReconcile
    \/ updateConsulClient(W)
    \/ ObjectUpdatedStatus

AgreementSpec == AgreementInit /\ [][AgreementNext]_vars

\* ObjectUpdated has returned nil for its pod, and the sweep that followed
\* has just left that pod
ReconciledAfterUpdate ==
    /\ proc[W].pc = "finish"
    /\ proc[W].err = Nil
    /\ PodLeft
    /\ proc[R].item = proc[W].item

\* the step in which ObjectUpdated, called after a sweep, makes its status
\* call and returns
UpdateAfterReconcile ==
    /\ sweep.swept
    /\ proc[W].pc = "ou_status"
    /\ proc'[W].pc = "finish"

\* C24: the Update handler and the Full Reconciler agree on the target check
\* status for every value of the pod's Ready condition status (True, False,
\* Unknown): for a Running pod with an existing check, Reconcile right after
\* a successful ObjectUpdated on the same pod state issues no status call,
\* and ObjectUpdated right after Reconcile does not change the check's
\* status.
C24_UpdateAndReconcileAgree ==
    /\ [](ReconciledAfterUpdate => ReconcileCallsOf({"PassTTL", "FailTTL"}) = <<>>)
    /\ [][UpdateAfterReconcile =>
            CheckOf(agentChecks', proc[W].item).Status
              = CheckOf(agentChecks, proc[W].item).Status]_vars
====
